---------------------------- MODULE Spec2Model ----------------------------
(***************************************************************************)
(* State-machine model of the scheme dispatch subsystem of the stealth     *)
(* demo server (src/stealth_demo/server).  The repository carries four     *)
(* superseding server entry points, each with its own dispatcher and       *)
(* session store:                                                          *)
(*   "multi"  : app_multi_scheme.py over server/scheme_manager.py          *)
(*   "api"    : api/routes.py + api/schemes.py over server/scheme_manager  *)
(*   "plugin" : schemes/scheme_manager.py over the BaseScheme plugins      *)
(*   "config" : multi_scheme_config.py with the per-scheme service classes *)
(* A run of the model is a run of one of them; the variable app says       *)
(* which.                                                                  *)
(***************************************************************************)
EXTENDS Integers, Sequences, FiniteSets, TLC

VARIABLES app, mgr, glob, demo_state, plug, cfg, nat, last, saved, conc, conv

vars == <<app, mgr, glob, demo_state, plug, cfg, nat, last, saved, conc,
          conv>>

(***************************************************************************)
(* Bounds of the exploration.                                              *)
(***************************************************************************)
MaxKeys == 2
MaxAddrs == 1
MaxDsks == 1
IdxSpan == 1

Apps == {"multi", "api", "plugin", "config"}

\* Index arguments a caller may pass.
Idx == (0 - IdxSpan)..IdxSpan

\* What a native call writes into its output buffers: 0 stands for a buffer
\* left all-zero, 1 for any other content.
NativeOut == {0, 1}

\* Parameter file names a caller may pass: a pairing file, a curve file, and
\* the curve file named by its path below the pairing directory.
ParamFileList == <<"a.param", "curve.conf", "ecc_params/curve.conf">>
ParamFiles == {ParamFileList[i] : i \in DOMAIN ParamFileList}
GoodParam == "a.param"

\* The position of a file name in ParamFileList: how a call records it.
FileNo(f) == CHOOSE i \in DOMAIN ParamFileList : ParamFileList[i] = f

\* The family of a parameter file and the family a scheme's library takes.
Family(f) == IF f = GoodParam THEN "pbc" ELSE "ecc"
param_type(id) == IF id \in {"cryptonote2", "zhao"} THEN "ecc" ELSE "pbc"

\* os.path.exists of the path built for scheme id.  app_multi_scheme.py looks
\* in ../param or ../param/ecc_params, the api routes in param/pbc_params or
\* param/ecc_params, the configuration in ../param.
ParamExists(a, id, f) ==
    CASE a = "multi" -> IF param_type(id) = "pbc"
                        THEN f \in {"a.param", "ecc_params/curve.conf"}
                        ELSE f = "curve.conf"
      [] a = "api" -> IF param_type(id) = "pbc" THEN f = "a.param"
                      ELSE f = "curve.conf"
      [] OTHER -> f \in {"a.param", "ecc_params/curve.conf"}

\* Outcome of loading a native library: the file is missing, dlopen fails,
\* a required symbol is missing, or the load succeeds.
LoadEnv == {"ok", "missing", "loadfail", "bindfail"}

\* Outcome of the native init call.
InitEnv == {"ok", "fail"}

\* A library that is handed a file of the other family reports failure.
InitOutcome(id, f, env) == IF Family(f) = param_type(id) THEN env ELSE "fail"

(***************************************************************************)
(* Records kept in the artifact collections.                               *)
(***************************************************************************)
KeyRec(i, v) == [index |-> i, val |-> v]
AddrRec(i, k) == [index |-> i, key_index |-> k]
\* method is the record's "method" entry, "none" when the record has none.
DskRec(i, a, k, m) ==
    [index |-> i, address_index |-> a, key_index |-> k, method |-> m]

\* The session of one scheme in normal form.
Session(ini, par, tr, ks, as, ds, ss) ==
    [initialized |-> ini, param |-> par, tracer |-> tr,
     keys |-> ks, addresses |-> as, dsks |-> ds, sigs |-> ss]

EmptySession == Session(FALSE, "none", 0, <<>>, <<>>, <<>>, <<>>)

\* The observation of the last call when no call was made yet.
\* a1 is the index argument of a call that takes exactly one index, else 0.
\* ret is what a successful trace_identity, recognize_address or
\* verify_signature returns; NoRet for other calls.  rv is the value the
\* native boolean function returned, reported what the caller is told.
\* No hex conversion in progress.
NoConv == [pc |-> "none", h |-> <<>>, size |-> 0, raw |-> <<>>, back |-> <<>>]

NoRet == [recovered |-> 0, matched |-> -1, match_type |-> "none",
          perfect_match |-> FALSE, rv |-> 0, reported |-> "none",
          is_owner |-> FALSE]

\* The values a native call may return or write: drawn when the handler
\* reaches the call (called); a handler that returns before the call never
\* reads the value, and one value then stands for all.
NativeDraw(S, called) == IF called THEN S ELSE {1}

\* What a native boolean function may return: 1 true, 0 false, -1 an error.
NativeBool == {-1, 0, 1}

\* Python's bool(result).
py_bool(result) == IF result # 0 THEN "true" ELSE "false"

\* Python's result == 1.
eq_one(result) == IF result = 1 THEN "true" ELSE "false"

BoolRet(rv, reported, is_owner) ==
    [NoRet EXCEPT !.rv = rv, !.reported = reported, !.is_owner = is_owner]

\* The recovered component a native trace call may write: 0 an all-zero
\* buffer, 1 the encoding that keygen produces, 2 another encoding whose
\* first ten hex characters are those of 1.
TraceOut == {0, 1, 2}

\* The first ten hex characters of a component.
HexPrefix(v) == IF v = 0 THEN 0 ELSE 1

\* What find_matching_key returns: None, or the matched key's index with the
\* match_type entry ("none" when the result has no such entry).
NoMatch == [found |-> FALSE, index |-> -1, match_type |-> "none"]

Matched(i, t) == [found |-> TRUE, index |-> i, match_type |-> t]

FirstPos(S) == CHOOSE i \in S : \A j \in S : i <= j

\* The result of trace_identity: perfect_match is "matched_key is not None".
TraceRet(recovered, m) ==
    [NoRet EXCEPT !.recovered = recovered, !.matched = m.index,
                  !.match_type = m.match_type, !.perfect_match = m.found]

NoCall == [op |-> "none", id |-> "none", res |-> "none", first |-> "none",
           native |-> FALSE, cleanup |-> FALSE, a1 |-> 0, rep |-> FALSE,
           ret |-> NoRet]

Call(op, id, res, first, native, cleanup, a1) ==
    [op |-> op, id |-> id, res |-> res, first |-> first,
     native |-> native, cleanup |-> cleanup, a1 |-> a1,
     rep |-> (op = "reset" /\ last.op = "reset" /\ last.id = id
              /\ last.res = "ok"),
     ret |-> NoRet]

(***************************************************************************)
(* Views of the state shared by the four dispatchers.                      *)
(***************************************************************************)
\* The id of the active scheme, "none" when there is none.
ActiveId ==
    CASE app \in {"multi", "api"} -> mgr.current_scheme
      [] app = "plugin" -> plug.name
      [] app = "config" -> cfg.current_scheme

\* The session of the active scheme.  app_multi_scheme.py, the api routes and
\* the plugin manager hold a single store, which belongs to the active scheme.
Store ==
    CASE app = "multi" ->
           Session(mgr.initialized, glob.current_param_file, glob.trace_key,
                   glob.key_list, glob.address_list, glob.dsk_list,
                   glob.tx_message_list)
      [] app = "api" ->
           Session(demo_state.initialized, demo_state.param_file, 0,
                   demo_state.keys, <<>>, <<>>, <<>>)
      [] app = "plugin" -> plug.sess
      [] app = "config" -> cfg.data[cfg.current_scheme]

\* The session that serves scheme id; a scheme without an entry of
\* schemes_data has no session, which reads as never set up.
SessOf(id) ==
    IF app = "config"
    THEN IF id \in DOMAIN cfg.data THEN cfg.data[id] ELSE EmptySession
    ELSE Store

\* Every session store of the running dispatcher, in a fixed order.
SessList ==
    IF app = "config" THEN <<cfg.data["stealth"], cfg.data["sitaiba"]>>
    ELSE <<Store>>

(***************************************************************************)
(* History variable saved: the session of the scheme that was left by the  *)
(* last successful switch(other), kept until the next switch.  back is set *)
(* by the switch that returns to that scheme.  The history is recorded     *)
(* only in runs that start with it switched on (SpecSwitch); with id "off" *)
(* it never changes.                                                       *)
(***************************************************************************)
SavedOff == [id |-> "off", other |-> "none", back |-> FALSE, sess |-> EmptySession]

NoSaved == [id |-> "none", other |-> "none", back |-> FALSE, sess |-> EmptySession]

SavedClear == IF saved.id = "off" THEN saved ELSE NoSaved

SavedKeep == IF saved.back THEN NoSaved ELSE saved

SavedSwitch(from, to, ok) ==
    IF saved.id = "off" THEN saved
    ELSE IF ok /\ from # "none" /\ from # to
    THEN IF saved.id = to /\ saved.other = from /\ ~saved.back
         THEN [saved EXCEPT !.back = TRUE]
         ELSE [id |-> from, other |-> to, back |-> FALSE, sess |-> Store]
    ELSE NoSaved

SavedReset(id) == IF saved.id = id THEN NoSaved ELSE SavedKeep

(***************************************************************************)
(* common/base_utils.py                                                    *)
(***************************************************************************)
\* TRUE when validate_index raises.
validate_index(index, data_list) == index < 0 \/ index >= Len(data_list)

(***************************************************************************)
(* server/scheme_manager.py : the library-loading SchemeManager            *)
(***************************************************************************)
SCHEMES ==
    [my_stealth |-> {"init", "keygen", "tracekeygen", "addr_gen", "addr_verify",
                     "dsk_gen", "sign", "verify", "trace", "performance"},
     cryptonote2 |-> {"init", "keygen", "addr_gen", "addr_verify",
                      "onetime_sk_gen", "hash", "performance"},
     zhao |-> {"init", "keygen", "sign", "verify", "hash", "performance"},
     hdwsa |-> {"init", "keygen", "sign", "verify", "master_keygen",
                "derive_child", "hash", "performance"},
     sitaiba |-> {"init", "keygen", "sign", "verify", "issue_credential",
                  "verify_credential", "hash", "performance"}]

LibIds == DOMAIN SCHEMES

\* Scheme ids a caller may pass to the library manager: one scheme with
\* tracekeygen, one without, and an id that is not registered.
LibInputs == {"my_stealth", "zhao", "bogus"}

MgrInit == [current_scheme |-> "none", loaded_lib |-> FALSE, initialized |-> FALSE]

\* The loaded library exports <prefix>cleanup.
HasCleanupSymbol == TRUE

cleanup_current_scheme(m, n) ==
    LET called == m.loaded_lib /\ m.initialized /\ HasCleanupSymbol
    IN [mgr |-> MgrInit,
        nat |-> IF called THEN [n EXCEPT ![m.current_scheme] = FALSE] ELSE n,
        cleanup |-> called]

Mgr_switch_scheme(m, n, scheme_id, env) ==
    IF scheme_id \notin LibIds
    THEN [mgr |-> m, nat |-> n, res |-> "UnknownScheme", cleanup |-> FALSE]
    ELSE IF env = "missing"
    THEN [mgr |-> m, nat |-> n, res |-> "LibraryLoadFailed", cleanup |-> FALSE]
    ELSE LET c == IF m.loaded_lib THEN cleanup_current_scheme(m, n)
                  ELSE [mgr |-> m, nat |-> n, cleanup |-> FALSE]
         IN IF env = "loadfail"
            THEN [mgr |-> c.mgr, nat |-> c.nat, res |-> "LibraryLoadFailed",
                  cleanup |-> c.cleanup]
            ELSE [mgr |-> [current_scheme |-> scheme_id, loaded_lib |-> TRUE,
                           initialized |-> FALSE],
                  nat |-> c.nat,
                  res |-> IF env = "bindfail" THEN "LibraryLoadFailed" ELSE "ok",
                  cleanup |-> c.cleanup]

is_function_available(m, function_name) ==
    IF m.current_scheme = "none" THEN FALSE
    ELSE function_name \in SCHEMES[m.current_scheme]

mark_initialized(m) == [m EXCEPT !.initialized = TRUE]

(***************************************************************************)
(* app_multi_scheme.py                                                     *)
(***************************************************************************)
GlobInit == [key_list |-> <<>>, address_list |-> <<>>, dsk_list |-> <<>>,
             tx_message_list |-> <<>>, trace_key |-> 0,
             current_param_file |-> "none"]

ClearLists(g) == [g EXCEPT !.key_list = <<>>, !.address_list = <<>>,
                           !.dsk_list = <<>>, !.tx_message_list = <<>>]

Multi_switch_scheme ==
    /\ app = "multi"
    /\ \E scheme_id \in LibInputs, env \in LoadEnv :
         LET r == Mgr_switch_scheme(mgr, nat, scheme_id, env)
         IN /\ glob' = [ClearLists(glob) EXCEPT !.trace_key = 0,
                                                !.current_param_file = "none"]
            /\ mgr' = r.mgr
            /\ nat' = r.nat
            /\ last' = Call("switch", scheme_id, r.res, "none", r.cleanup,
                            r.cleanup, 0)
    /\ UNCHANGED <<app, demo_state, plug, cfg>>
    /\ saved' = SavedSwitch(mgr.current_scheme, mgr'.current_scheme, last'.res = "ok")
    /\ UNCHANGED <<conc, conv>>

Multi_setup ==
    /\ app = "multi"
    /\ \E param_file \in ParamFiles, env0 \in InitEnv, tk \in NativeOut :
         LET id == mgr.current_scheme
             env == InitOutcome(id, param_file, env0)
             fail(res, native) ==
                 /\ mgr' = [mgr EXCEPT !.initialized = FALSE]
                 /\ glob' = [glob EXCEPT !.current_param_file = "none"]
                 /\ nat' = IF native /\ env = "ok" THEN [nat EXCEPT ![id] = TRUE]
                           ELSE nat
                 /\ last' = Call("setup", id, res, "active", native, FALSE, FileNo(param_file))
         IN IF id = "none" THEN fail("NoActiveScheme", FALSE)
            ELSE IF ~ParamExists("multi", id, param_file)
            THEN /\ last' = Call("setup", id, "ParamFileNotFound", "active",
                                 FALSE, FALSE, FileNo(param_file))
                 /\ UNCHANGED <<mgr, glob, nat>>
            ELSE IF env = "fail" THEN fail("InitFailed", TRUE)
            ELSE IF is_function_available(mgr, "tracekeygen") /\ tk = 0
            THEN fail("EmptyOutput", TRUE)
            ELSE /\ mgr' = mark_initialized(mgr)
                 /\ glob' = [ClearLists(glob) EXCEPT
                               !.current_param_file = param_file,
                               !.trace_key =
                                  IF is_function_available(mgr, "tracekeygen")
                                  THEN 1 ELSE 0]
                 /\ nat' = [nat EXCEPT ![id] = TRUE]
                 /\ last' = Call("setup", id, "ok", "active", TRUE, FALSE, FileNo(param_file))
    /\ UNCHANGED <<app, demo_state, plug, cfg>>
    /\ saved' = SavedKeep
    /\ UNCHANGED <<conc, conv>>

Multi_keygen ==
    /\ app = "multi"
    /\ Len(glob.key_list) < MaxKeys
    /\ \E out \in NativeOut :
         LET id == mgr.current_scheme
             stop(res) ==
                 /\ last' = Call("keygen", id, res, "active", FALSE, FALSE, 0)
                 /\ UNCHANGED glob
         IN IF id = "none" THEN stop("NoActiveScheme")
            ELSE IF ~mgr.initialized THEN stop("NotInitialized")
            ELSE IF ~is_function_available(mgr, "keygen")
            THEN stop("CapabilityNotSupported")
            ELSE IF out = 0
            THEN /\ last' = Call("keygen", id, "EmptyOutput", "active", TRUE,
                                 FALSE, 0)
                 /\ UNCHANGED glob
            ELSE /\ glob' = [glob EXCEPT !.key_list =
                               Append(@, KeyRec(Len(glob.key_list), out))]
                 /\ last' = Call("keygen", id, "ok", "active", TRUE, FALSE, 0)
    /\ UNCHANGED <<app, mgr, demo_state, plug, cfg, nat>>
    /\ saved' = SavedKeep
    /\ UNCHANGED <<conc, conv>>

Multi_reset_system ==
    /\ app = "multi"
    /\ glob' = [ClearLists(glob) EXCEPT !.trace_key = 0,
                                        !.current_param_file = "none"]
    /\ mgr' = [mgr EXCEPT !.initialized = FALSE]
    /\ last' = Call("reset", mgr.current_scheme, "ok", "none",
                    mgr.initialized /\ mgr.loaded_lib, FALSE, 0)
    /\ UNCHANGED <<app, demo_state, plug, cfg, nat>>
    /\ saved' = SavedReset(mgr.current_scheme)
    /\ UNCHANGED <<conc, conv>>

(***************************************************************************)
(* api/schemes.py and api/routes.py                                        *)
(***************************************************************************)
DemoInit == [current_scheme |-> "none", initialized |-> FALSE,
             param_file |-> "none", keys |-> <<>>]

Api_switch_scheme ==
    /\ app = "api"
    /\ \E scheme_id \in LibInputs, env \in LoadEnv :
         LET r == Mgr_switch_scheme(mgr, nat, scheme_id, env)
         IN /\ mgr' = r.mgr
            /\ nat' = r.nat
            /\ demo_state' =
                 IF r.res = "ok"
                 THEN [current_scheme |-> scheme_id, initialized |-> FALSE,
                       param_file |-> "none", keys |-> <<>>]
                 ELSE demo_state
            /\ last' = Call("switch", scheme_id, r.res, "none", r.cleanup,
                            r.cleanup, 0)
    /\ UNCHANGED <<app, glob, plug, cfg>>
    /\ saved' = SavedSwitch(mgr.current_scheme, mgr'.current_scheme, last'.res = "ok")
    /\ UNCHANGED <<conc, conv>>

Api_setup_system ==
    /\ app = "api"
    /\ \E param_file \in ParamFiles, env0 \in InitEnv :
         LET id == mgr.current_scheme
             env == InitOutcome(id, param_file, env0)
             stop(res, native) ==
                 /\ last' = Call("setup", id, res, "active", native, FALSE, FileNo(param_file))
                 /\ UNCHANGED <<mgr, demo_state, nat>>
         IN IF id = "none" THEN stop("NoActiveScheme", FALSE)
            ELSE IF ~ParamExists("api", id, param_file) THEN stop("ParamFileNotFound", FALSE)
            ELSE IF env = "fail" THEN stop("InitFailed", TRUE)
            ELSE /\ demo_state' = [demo_state EXCEPT !.initialized = TRUE,
                                                     !.param_file = param_file]
                 /\ mgr' = mark_initialized(mgr)
                 /\ nat' = [nat EXCEPT ![id] = TRUE]
                 /\ last' = Call("setup", id, "ok", "active", TRUE, FALSE, FileNo(param_file))
    /\ UNCHANGED <<app, glob, plug, cfg>>
    /\ saved' = SavedKeep
    /\ UNCHANGED <<conc, conv>>

Api_generate_key ==
    /\ app = "api"
    /\ Len(demo_state.keys) < MaxKeys
    /\ \E out \in NativeOut :
         LET id == mgr.current_scheme
             stop(res) ==
                 /\ last' = Call("keygen", id, res, "initialized", FALSE, FALSE,
                                 0)
                 /\ UNCHANGED demo_state
         IN IF ~demo_state.initialized THEN stop("NotInitialized")
            ELSE IF ~is_function_available(mgr, "keygen")
            THEN stop("CapabilityNotSupported")
            ELSE /\ demo_state' = [demo_state EXCEPT !.keys =
                                     Append(@, KeyRec(Len(demo_state.keys), out))]
                 /\ last' = Call("keygen", id, "ok", "initialized", TRUE, FALSE,
                                 0)
    /\ UNCHANGED <<app, mgr, glob, plug, cfg, nat>>
    /\ saved' = SavedKeep
    /\ UNCHANGED <<conc, conv>>

Api_reset_system ==
    /\ app = "api"
    /\ demo_state' = DemoInit
    /\ last' = Call("reset", mgr.current_scheme, "ok", "none", FALSE, FALSE, 0)
    /\ UNCHANGED <<app, mgr, glob, plug, cfg, nat>>
    /\ saved' = SavedReset(mgr.current_scheme)
    /\ UNCHANGED <<conc, conv>>

(***************************************************************************)
(* schemes/base_scheme.py, schemes/scheme_manager.py and the two plugins   *)
(* schemes/stealth_scheme_new.py and schemes/sitaiba_scheme.py             *)
(***************************************************************************)
PlugIds == {"stealth", "sitaiba"}

\* Scheme names a caller may pass to activate_scheme.
PlugInputs == PlugIds \cup {"bogus"}

capabilities ==
    [stealth |-> {"setup", "keygen", "tracekeygen", "addrgen", "verify_addr",
                  "dskgen", "sign", "verify", "trace", "performance"},
     sitaiba |-> {"setup", "keygen", "addrgen", "verify_addr", "fast_verify",
                  "dskgen", "trace", "performance"}]

\* The active instance held by the manager; name "none" when there is none.
\* library is the instance's _library reference: the SITAIBA plugin binds the
\* module-level wrapper in its constructor, the Stealth plugin only in setup.
NoInst == [name |-> "none", sess |-> EmptySession, library |-> FALSE]

FreshInst(name) == [name |-> name, sess |-> EmptySession,
                    library |-> (name = "sitaiba")]

\* The two ways a call reaches a plugin: through the HTTP route, which gates
\* on the capability, or through the manager's proxy method directly.
Vias == {"route", "manager"}

Out(res, native, inst) == [res |-> res, native |-> native, inst |-> inst]

supports_capability(p, capability) ==
    IF p.name = "none" THEN FALSE ELSE capability \in capabilities[p.name]

validate_param_file(p, param_file) == param_file = GoodParam

validate_sitaiba_index(index, data_list) == index < 0 \/ index >= Len(data_list)

\* Python list indexing: seq[i] raises IndexError unless -len <= i < len.
PyIndexError(i, seq) == i >= Len(seq) \/ i < 0 - Len(seq)

\* seq[i] in Python, a negative i counting from the end.
PyAt(seq, i) == IF i >= 0 THEN seq[i + 1] ELSE seq[Len(seq) + i + 1]

OutRet(res, native, inst, ret) ==
    [res |-> res, native |-> native, inst |-> inst, ret |-> ret]

\* sitaiba_utils.py (top level): the position of the first key whose B_hex
\* equals the target, or None.
find_matching_sitaiba_key(target_b_hex, key_list) ==
    LET S == {i \in DOMAIN key_list : key_list[i].val = target_b_hex}
    IN IF S = {} THEN NoMatch ELSE Matched(FirstPos(S) - 1, "none")

\* A default body that delegates to the library instead of refusing.
BaseScheme_default_delegates(p) == Out("ok", TRUE, p)

\* BaseScheme's default body of an optional operation.
BaseScheme_default(p) == Out("CapabilityNotSupported", FALSE, p)

Stealth_NotInit(p) == ~p.sess.initialized \/ ~p.library

Stealth_setup_system(p, param_file, env) ==
    IF ~validate_param_file(p, param_file)
    THEN Out("UnsupportedParamFile", FALSE, p)
    ELSE IF env = "fail" THEN Out("InitFailed", TRUE, p)
    ELSE Out("ok", TRUE,
             [p EXCEPT !.library = TRUE,
                       !.sess = Session(TRUE, param_file, 1, <<>>, <<>>, <<>>, <<>>)])

Stealth_reset_system(p) ==
    Out("ok", p.sess.initialized /\ p.library,
        [p EXCEPT !.sess.keys = <<>>, !.sess.addresses = <<>>,
                  !.sess.dsks = <<>>, !.sess.sigs = <<>>])

Stealth_generate_keypair(p, out) ==
    IF Stealth_NotInit(p) THEN Out("NotInitialized", FALSE, p)
    ELSE Out("ok", TRUE,
             [p EXCEPT !.sess.keys = Append(@, KeyRec(Len(p.sess.keys), out))])

Stealth_generate_address(p, key_id) ==
    IF Stealth_NotInit(p) THEN Out("NotInitialized", FALSE, p)
    ELSE IF key_id >= Len(p.sess.keys) THEN Out("IndexOutOfRange", FALSE, p)
    ELSE IF p.sess.tracer = 0 THEN Out("TracerKeyMissing", FALSE, p)
    ELSE IF PyIndexError(key_id, p.sess.keys) THEN Out("IndexError", FALSE, p)
    ELSE Out("ok", TRUE,
             [p EXCEPT !.sess.addresses =
                 Append(@, AddrRec(Len(p.sess.addresses), key_id))])

\* The wrapper's addr_verify returns result == 1.
Stealth_verify_address(p, addr_id, key_id, rv) ==
    IF Stealth_NotInit(p) THEN Out("NotInitialized", FALSE, p)
    ELSE IF addr_id >= Len(p.sess.addresses) THEN Out("IndexOutOfRange", FALSE, p)
    ELSE IF key_id >= Len(p.sess.keys) THEN Out("IndexOutOfRange", FALSE, p)
    ELSE IF PyIndexError(addr_id, p.sess.addresses) \/ PyIndexError(key_id, p.sess.keys)
    THEN Out("IndexError", FALSE, p)
    ELSE OutRet("ok", TRUE, p,
                BoolRet(rv, eq_one(rv),
                        PyAt(p.sess.addresses, addr_id).key_index = key_id))

\* The wrapper's dsk_gen raises NotImplementedError before any native call.
Stealth_generate_dsk(p, addr_id, key_id) ==
    IF Stealth_NotInit(p) THEN Out("NotInitialized", FALSE, p)
    ELSE IF addr_id >= Len(p.sess.addresses) THEN Out("IndexOutOfRange", FALSE, p)
    ELSE IF key_id >= Len(p.sess.keys) THEN Out("IndexOutOfRange", FALSE, p)
    ELSE IF PyIndexError(addr_id, p.sess.addresses) \/ PyIndexError(key_id, p.sess.keys)
    THEN Out("IndexError", FALSE, p)
    ELSE Out("NotImplemented", FALSE, p)

\* The wrapper's sign_with_dsk raises NotImplementedError before any native call.
Stealth_sign_message(p, dsk_id) ==
    IF Stealth_NotInit(p) THEN Out("NotInitialized", FALSE, p)
    ELSE IF dsk_id >= Len(p.sess.dsks) THEN Out("IndexOutOfRange", FALSE, p)
    ELSE IF PyIndexError(dsk_id, p.sess.dsks) THEN Out("IndexError", FALSE, p)
    ELSE Out("NotImplemented", FALSE, p)

Stealth_verify_signature(p, sig_id, rv) ==
    IF Stealth_NotInit(p) THEN Out("NotInitialized", FALSE, p)
    ELSE IF sig_id >= Len(p.sess.sigs) THEN Out("IndexOutOfRange", FALSE, p)
    ELSE IF PyIndexError(sig_id, p.sess.sigs) THEN Out("IndexError", FALSE, p)
    ELSE OutRet("ok", TRUE, p, BoolRet(rv, eq_one(rv), FALSE))

\* The result names the address's original_key_id and whether that key's B
\* equals the recovered bytes.
Stealth_trace_identity(p, addr_id, out) ==
    IF Stealth_NotInit(p) THEN Out("NotInitialized", FALSE, p)
    ELSE IF addr_id >= Len(p.sess.addresses) THEN Out("IndexOutOfRange", FALSE, p)
    ELSE IF p.sess.tracer = 0 THEN Out("TracerKeyMissing", FALSE, p)
    ELSE IF PyIndexError(addr_id, p.sess.addresses) THEN Out("IndexError", FALSE, p)
    ELSE LET original_key_id == PyAt(p.sess.addresses, addr_id).key_index
             match == /\ original_key_id < Len(p.sess.keys)
                      /\ ~PyIndexError(original_key_id, p.sess.keys)
                      /\ PyAt(p.sess.keys, original_key_id).val = out
         IN OutRet("ok", TRUE, p,
                   [NoRet EXCEPT !.recovered = out,
                                 !.matched = original_key_id,
                                 !.perfect_match = match])

\* tk = 0: get_tracer_public_key fails after initialized was already set.
Sitaiba_setup_system(p, param_file, env, tk) ==
    IF ~validate_param_file(p, param_file)
    THEN Out("UnsupportedParamFile", FALSE, p)
    ELSE IF env = "fail" THEN Out("InitFailed", TRUE, p)
    ELSE IF tk = 0
    THEN Out("TracerKeyFailed", TRUE,
             [p EXCEPT !.sess.initialized = TRUE, !.sess.param = param_file])
    ELSE Out("ok", TRUE,
             [p EXCEPT !.sess = Session(TRUE, param_file, 1, <<>>, <<>>, <<>>,
                                        p.sess.sigs)])

\* A reset that refuses a session that is not set up.
Sitaiba_reset_system_needs_setup(p) ==
    IF ~p.sess.initialized THEN Out("NotInitialized", FALSE, p)
    ELSE Out("ok", TRUE,
             [p EXCEPT !.sess = Session(FALSE, "none", 0, <<>>, <<>>, <<>>, p.sess.sigs)])

Sitaiba_reset_system(p) ==
    Out("ok", p.sess.initialized,
        [p EXCEPT !.sess = Session(FALSE, "none", 0, <<>>, <<>>, <<>>, p.sess.sigs)])

Sitaiba_generate_keypair(p, out) ==
    IF ~p.sess.initialized THEN Out("NotInitialized", FALSE, p)
    ELSE Out("ok", TRUE,
             [p EXCEPT !.sess.keys = Append(@, KeyRec(Len(p.sess.keys), out))])

Sitaiba_generate_address(p, key_index) ==
    IF ~p.sess.initialized THEN Out("NotInitialized", FALSE, p)
    ELSE IF validate_sitaiba_index(key_index, p.sess.keys)
    THEN Out("IndexOutOfRange", FALSE, p)
    ELSE IF p.sess.tracer = 0 THEN Out("TracerKeyMissing", FALSE, p)
    ELSE Out("ok", TRUE,
             [p EXCEPT !.sess.addresses =
                 Append(@, AddrRec(Len(p.sess.addresses), key_index))])

\* The wrapper's addr_verify returns bool(result).
Sitaiba_verify_address(p, address_index, key_index, rv) ==
    IF ~p.sess.initialized THEN Out("NotInitialized", FALSE, p)
    ELSE IF validate_sitaiba_index(address_index, p.sess.addresses)
    THEN Out("IndexOutOfRange", FALSE, p)
    ELSE IF validate_sitaiba_index(key_index, p.sess.keys)
    THEN Out("IndexOutOfRange", FALSE, p)
    ELSE OutRet("ok", TRUE, p,
                BoolRet(rv, py_bool(rv),
                        p.sess.addresses[address_index + 1].key_index
                          = key_index))

Sitaiba_generate_dsk(p, address_index, key_index) ==
    IF ~p.sess.initialized THEN Out("NotInitialized", FALSE, p)
    ELSE IF validate_sitaiba_index(address_index, p.sess.addresses)
    THEN Out("IndexOutOfRange", FALSE, p)
    ELSE IF validate_sitaiba_index(key_index, p.sess.keys)
    THEN Out("IndexOutOfRange", FALSE, p)
    ELSE Out("ok", TRUE,
             [p EXCEPT !.sess.dsks =
                 Append(@, DskRec(Len(p.sess.dsks), address_index, key_index,
                                  "sitaiba_onetime_sk"))])

Sitaiba_trace_identity(p, address_index, out) ==
    IF ~p.sess.initialized THEN Out("NotInitialized", FALSE, p)
    ELSE IF validate_sitaiba_index(address_index, p.sess.addresses)
    THEN Out("IndexOutOfRange", FALSE, p)
    ELSE OutRet("ok", TRUE, p,
                TraceRet(out, find_matching_sitaiba_key(out, p.sess.keys)))

Sitaiba_performance_test(p) ==
    IF ~p.sess.initialized THEN Out("NotInitialized", FALSE, p)
    ELSE Out("ok", TRUE, p)

\* The scheme's own method for an operation, or BaseScheme's default where
\* the plugin class does not define it.
SchemeOp(p, stealth_out, sitaiba_out) ==
    IF p.name = "stealth" THEN stealth_out ELSE sitaiba_out

\* A proxy that hands the call to the scheme without asking whether one is
\* active.
PlugStep_unchecked(op, capability, via, a1, o) ==
    LET r == IF via = "route" /\ ~supports_capability(plug, capability)
             THEN Out("CapabilityNotSupported", FALSE, plug)
             ELSE o
    IN /\ plug' = r.inst
       /\ nat' = IF op = "setup" /\ r.res \in {"ok", "TracerKeyFailed"}
                 THEN [n \in DOMAIN nat |-> nat[n] \/ n = plug.name] ELSE nat
       /\ last' = Call(op, plug.name, r.res,
                       IF via = "route" THEN "capability" ELSE "active",
                       r.native, FALSE, a1)
       /\ saved' = IF op = "reset" THEN SavedReset(plug.name) ELSE SavedKeep
       /\ UNCHANGED <<app, mgr, glob, demo_state, cfg>>

\* One call through the route (capability gate first) or through the
\* manager's proxy (active-scheme check first), then the scheme's method.
\* The call through via reaches the scheme's method, and the method the
\* native library.
PlugReaches(capability, via, o) ==
    /\ ~(via = "route" /\ ~supports_capability(plug, capability))
    /\ plug.name # "none"
    /\ o.native

PlugStep(op, capability, via, a1, o) ==
    LET r == IF via = "route" /\ ~supports_capability(plug, capability)
             THEN Out("CapabilityNotSupported", FALSE, plug)
             ELSE IF plug.name = "none" THEN Out("NoActiveScheme", FALSE, plug)
             ELSE o
    IN /\ plug' = r.inst
       /\ nat' = IF op = "setup" /\ r.res \in {"ok", "TracerKeyFailed"}
                 THEN [nat EXCEPT ![plug.name] = TRUE] ELSE nat
       /\ last' = [Call(op, plug.name, r.res,
                        IF via = "route" THEN "capability" ELSE "active",
                        r.native, FALSE, a1)
                   EXCEPT !.ret = IF r.res = "ok" /\ "ret" \in DOMAIN r
                                  THEN r.ret ELSE NoRet]
       /\ saved' = IF op = "reset" THEN SavedReset(plug.name) ELSE SavedKeep
       /\ UNCHANGED <<app, mgr, glob, demo_state, cfg>>

Plug_activate_scheme ==
    /\ app = "plugin"
    /\ \E scheme_name \in PlugInputs :
         /\ plug' = IF scheme_name \in PlugIds THEN FreshInst(scheme_name) ELSE plug
         /\ last' = Call("switch", scheme_name,
                         IF scheme_name \in PlugIds THEN "ok" ELSE "UnknownScheme",
                         "none", FALSE, FALSE, 0)
    /\ UNCHANGED <<app, mgr, glob, demo_state, cfg, nat>>
    /\ saved' = SavedSwitch(plug.name, plug'.name, last'.res = "ok")
    /\ UNCHANGED <<conc, conv>>

Plug_reset_active_scheme ==
    /\ app = "plugin"
    /\ plug' = NoInst
    /\ last' = Call("deactivate", plug.name, "ok", "none", FALSE, FALSE, 0)
    /\ UNCHANGED <<app, mgr, glob, demo_state, cfg, nat>>
    /\ saved' = SavedClear
    /\ UNCHANGED <<conc, conv>>

Plug_setup_system ==
    /\ app = "plugin"
    /\ \E param_file \in ParamFiles, env \in InitEnv, tk \in NativeOut :
         PlugStep("setup", "setup", "manager", FileNo(param_file),
                  SchemeOp(plug, Stealth_setup_system(plug, param_file, env),
                           Sitaiba_setup_system(plug, param_file, env, tk)))
    /\ UNCHANGED <<conc, conv>>

Plug_reset_system ==
    /\ app = "plugin"
    /\ PlugStep("reset", "setup", "manager", 0,
                SchemeOp(plug, Stealth_reset_system(plug), Sitaiba_reset_system(plug)))
    /\ UNCHANGED <<conc, conv>>

Plug_generate_keypair ==
    /\ app = "plugin"
    /\ Len(plug.sess.keys) < MaxKeys
    /\ \E via \in Vias, out \in NativeOut :
         PlugStep("keygen", "keygen", via, 0,
                  SchemeOp(plug, Stealth_generate_keypair(plug, out),
                           Sitaiba_generate_keypair(plug, out)))
    /\ UNCHANGED <<conc, conv>>

Plug_generate_address ==
    /\ app = "plugin"
    /\ Len(plug.sess.addresses) < MaxAddrs
    /\ \E via \in Vias, key_id \in Idx :
         PlugStep("addrgen", "addrgen", via, key_id,
                  SchemeOp(plug, Stealth_generate_address(plug, key_id),
                           Sitaiba_generate_address(plug, key_id)))
    /\ UNCHANGED <<conc, conv>>

Plug_verify_address ==
    /\ app = "plugin"
    /\ \E via \in Vias, addr_id \in Idx, key_id \in Idx :
       \E rv \in NativeDraw(NativeBool,
                PlugReaches("verify_addr", via,
                    SchemeOp(plug,
                             Stealth_verify_address(plug, addr_id, key_id, 1),
                             Sitaiba_verify_address(plug, addr_id, key_id, 1)))) :
         PlugStep("verify_addr", "verify_addr", via, 0,
                  SchemeOp(plug,
                           Stealth_verify_address(plug, addr_id, key_id, rv),
                           Sitaiba_verify_address(plug, addr_id, key_id, rv)))
    /\ UNCHANGED <<conc, conv>>

Plug_generate_dsk ==
    /\ app = "plugin"
    /\ Len(plug.sess.dsks) < MaxDsks
    /\ \E via \in Vias, addr_id \in Idx, key_id \in Idx :
         PlugStep("dskgen", "dskgen", via, 0,
                  SchemeOp(plug, Stealth_generate_dsk(plug, addr_id, key_id),
                           Sitaiba_generate_dsk(plug, addr_id, key_id)))
    /\ UNCHANGED <<conc, conv>>

Plug_sign_message ==
    /\ app = "plugin"
    /\ \E via \in Vias, dsk_id \in Idx :
         PlugStep("sign", "sign", via, dsk_id,
                  SchemeOp(plug, Stealth_sign_message(plug, dsk_id),
                           BaseScheme_default(plug)))
    /\ UNCHANGED <<conc, conv>>

Plug_verify_signature ==
    /\ app = "plugin"
    /\ \E via \in Vias, sig_id \in Idx :
       \E rv \in NativeDraw(NativeBool,
                PlugReaches("verify", via,
                    SchemeOp(plug, Stealth_verify_signature(plug, sig_id, 1),
                             BaseScheme_default(plug)))) :
         PlugStep("verify", "verify", via, sig_id,
                  SchemeOp(plug, Stealth_verify_signature(plug, sig_id, rv),
                           BaseScheme_default(plug)))
    /\ UNCHANGED <<conc, conv>>

Plug_trace_identity ==
    /\ app = "plugin"
    /\ \E via \in Vias, addr_id \in Idx :
       \E out \in NativeDraw(TraceOut,
                PlugReaches("trace", via,
                    SchemeOp(plug, Stealth_trace_identity(plug, addr_id, 1),
                             Sitaiba_trace_identity(plug, addr_id, 1)))) :
         PlugStep("trace", "trace", via, addr_id,
                  SchemeOp(plug, Stealth_trace_identity(plug, addr_id, out),
                           Sitaiba_trace_identity(plug, addr_id, out)))
    /\ UNCHANGED <<conc, conv>>

Plug_performance_test ==
    /\ app = "plugin"
    /\ \E via \in Vias :
         PlugStep("performance", "performance", via, 0,
                  SchemeOp(plug, BaseScheme_default(plug),
                           Sitaiba_performance_test(plug)))
    /\ UNCHANGED <<conc, conv>>

(***************************************************************************)
(* multi_scheme_config.py                                                  *)
(***************************************************************************)
\* The schemes that own an entry of schemes_data.
CfgIds == {"stealth", "sitaiba"}

\* The service classes under schemes/: StealthServices, SitaibaServices and
\* HdwsaServices.
Services == {"stealth", "sitaiba", "hdwsa"}

\* Scheme names a caller may pass to the configuration.
CfgInputs == Services \cup {"bogus"}

\* dsk_fn is schemes_data['stealth']['dsk_functions_available'].
CfgInit ==
    [current_scheme |-> "stealth",
     data |-> [n \in CfgIds |-> EmptySession],
     dsk_fn |-> FALSE]

COut(res, native, c) == [res |-> res, native |-> native, cfg |-> c]

COutRet(res, native, c, ret) ==
    [res |-> res, native |-> native, cfg |-> c, ret |-> ret]

\* StealthUtils.find_matching_key: the position of the first key whose B_hex
\* equals the target, or None.
StealthUtils_find_matching_key(c, target_b_hex) ==
    LET key_list == c.data[c.current_scheme].keys
        S == {i \in DOMAIN key_list : key_list[i].val = target_b_hex}
    IN IF S = {} THEN NoMatch ELSE Matched(FirstPos(S) - 1, "none")

\* A find_matching_key that reports the first key of the list for any match.
find_matching_key_reports_first(c, target_hex) ==
    LET key_list == c.data[c.current_scheme].keys
    IN IF \E i \in DOMAIN key_list :
            HexPrefix(key_list[i].val) = HexPrefix(target_hex)
       THEN Matched(0, "perfect") ELSE NoMatch

\* schemes/sitaiba/sitaiba_utils.py find_matching_key: the first key with an
\* equal B_hex, else the first key whose B_hex starts with the target's first
\* ten characters.
find_matching_key(c, target_hex) ==
    LET key_list == c.data[c.current_scheme].keys
        S == {i \in DOMAIN key_list : key_list[i].val = target_hex}
        T == {i \in DOMAIN key_list :
                HexPrefix(key_list[i].val) = HexPrefix(target_hex)}
    IN IF S # {} THEN Matched(key_list[FirstPos(S)].index, "perfect")
       ELSE IF T # {} THEN Matched(key_list[FirstPos(T)].index, "partial")
       ELSE NoMatch

set_current_scheme(c, scheme_name) == [c EXCEPT !.current_scheme = scheme_name]

\* A reset_scheme that empties the session of every scheme.
reset_scheme_clears_all(c, scheme_name) ==
    [c EXCEPT !.data = [n \in CfgIds |-> EmptySession]]

reset_scheme(c, scheme_name) ==
    [c EXCEPT !.data[scheme_name] = EmptySession]

reset_all_schemes(c) == [c EXCEPT !.data = [n \in CfgIds |-> EmptySession]]

set_initialized(c, param_file, scheme_name) ==
    [c EXCEPT !.data[scheme_name].initialized = TRUE,
              !.data[scheme_name].param = param_file,
              !.data[scheme_name].tracer = 1]

\* TRUE when ensure_initialized raises "not initialized".
ensure_initialized(c, scheme_name) == ~c.data[scheme_name].initialized

\* common/scheme_utils.py: bytes_to_hex_safe_fixed is the converter of the
\* current scheme; the stealth one returns "" for an all-zero buffer, the
\* SITAIBA one returns the zero digits.
bytes_to_hex_empty(c, out) == out = 0 /\ c.current_scheme = "stealth"

(***************************************************************************)
(* common/base_services.py, schemes/stealth/stealth_services.py and        *)
(* schemes/sitaiba/sitaiba_services.py                                     *)
(***************************************************************************)
\* dsk_lib: the stealth wrapper found the dedicated DSK functions in the
\* library (its dsk_functions_available attribute).
Svc_setup_system(c, n, param_file, env, tk, dsk_lib) ==
    LET c1 == set_current_scheme(c, n)
        c2 == reset_scheme(c1, n)
        c3 == set_initialized(c2, param_file, n)
    IN IF ~ParamExists("config", n, param_file)
       THEN COut("ParamFileNotFound", FALSE, c1)
       ELSE IF InitOutcome(n, param_file, env) = "fail"
       THEN COut("InitFailed", TRUE, c1)
       ELSE IF bytes_to_hex_empty(c2, tk) THEN COut("EmptyOutput", TRUE, c2)
       ELSE COut("ok", TRUE,
                 IF n = "stealth" THEN [c3 EXCEPT !.dsk_fn = dsk_lib] ELSE c3)

\* A generate_keypair that gives every key the index 0.
Svc_generate_keypair_index_zero(c, n, out) ==
    LET c1 == set_current_scheme(c, n)
    IN IF ensure_initialized(c1, n) THEN COut("NotInitialized", FALSE, c1)
       ELSE IF bytes_to_hex_empty(c1, out) THEN COut("EmptyOutput", TRUE, c1)
       ELSE COut("ok", TRUE,
                 [c1 EXCEPT !.data[n].keys = Append(@, KeyRec(0, out))])

Svc_generate_keypair(c, n, out) ==
    LET c1 == set_current_scheme(c, n)
        keys == c1.data[n].keys
    IN IF ensure_initialized(c1, n) THEN COut("NotInitialized", FALSE, c1)
       ELSE IF bytes_to_hex_empty(c1, out) THEN COut("EmptyOutput", TRUE, c1)
       ELSE COut("ok", TRUE,
                 [c1 EXCEPT !.data[n].keys = Append(@, KeyRec(Len(keys), out))])

Svc_generate_address(c, n, key_index, out) ==
    LET c1 == set_current_scheme(c, n)
        d == c1.data[n]
    IN IF ensure_initialized(c1, n) THEN COut("NotInitialized", FALSE, c1)
       ELSE IF validate_index(key_index, d.keys)
       THEN COut("IndexOutOfRange", FALSE, c1)
       ELSE IF d.tracer = 0 THEN COut("TracerKeyMissing", FALSE, c1)
       ELSE IF bytes_to_hex_empty(c1, out) THEN COut("EmptyOutput", TRUE, c1)
       ELSE COut("ok", TRUE,
                 [c1 EXCEPT !.data[n].addresses =
                     Append(@, AddrRec(Len(d.addresses), key_index))])

\* A recognize_address that raises when the native function does not return 1.
Svc_recognize_address_raises(c, n, address_index, key_index, fast, rv) ==
    LET c1 == set_current_scheme(c, n)
        d == c1.data[n]
    IN IF ensure_initialized(c1, n) THEN COut("NotInitialized", FALSE, c1)
       ELSE IF validate_index(address_index, d.addresses)
       THEN COut("IndexOutOfRange", FALSE, c1)
       ELSE IF validate_index(key_index, d.keys)
       THEN COut("IndexOutOfRange", FALSE, c1)
       ELSE IF rv # 1 THEN COut("NativeError", TRUE, c1)
       ELSE COutRet("ok", TRUE, c1,
                    BoolRet(rv, "true",
                            d.addresses[address_index + 1].key_index
                              = key_index))

\* The wrappers' addr_recognize and addr_recognize_fast return bool(result);
\* the SITAIBA service reads the tracer key for the full check.
Svc_recognize_address(c, n, address_index, key_index, fast, rv) ==
    LET c1 == set_current_scheme(c, n)
        d == c1.data[n]
    IN IF ensure_initialized(c1, n) THEN COut("NotInitialized", FALSE, c1)
       ELSE IF validate_index(address_index, d.addresses)
       THEN COut("IndexOutOfRange", FALSE, c1)
       ELSE IF validate_index(key_index, d.keys)
       THEN COut("IndexOutOfRange", FALSE, c1)
       ELSE IF n = "sitaiba" /\ ~fast /\ d.tracer = 0
       THEN COut("TracerKeyMissing", FALSE, c1)
       ELSE COutRet("ok", TRUE, c1,
                    BoolRet(rv, py_bool(rv),
                            d.addresses[address_index + 1].key_index
                              = key_index))

\* The "method" entry of the record generate_dsk builds: StealthServices'
\* _call_c_generate_dsk names the native function it called, the SITAIBA
\* service's record has no such entry.
dsk_method(c, n) ==
    IF n = "stealth" THEN IF c.dsk_fn THEN "dedicated" ELSE "fallback"
    ELSE "none"

\* generate_dsk that validates the key index only after the native call.
Svc_generate_dsk_validates_late(c, n, address_index, key_index, out) ==
    LET c1 == set_current_scheme(c, n)
        d == c1.data[n]
    IN IF ensure_initialized(c1, n) THEN COut("NotInitialized", FALSE, c1)
       ELSE IF validate_index(address_index, d.addresses)
       THEN COut("IndexOutOfRange", FALSE, c1)
       ELSE IF validate_index(key_index, d.keys)
       THEN COut("IndexOutOfRange", TRUE, c1)
       ELSE COut("ok", TRUE,
                 [c1 EXCEPT !.data[n].dsks =
                     Append(@, DskRec(Len(d.dsks), address_index, key_index,
                                      dsk_method(c1, n)))])

Svc_generate_dsk(c, n, address_index, key_index, out) ==
    LET c1 == set_current_scheme(c, n)
        d == c1.data[n]
    IN IF ensure_initialized(c1, n) THEN COut("NotInitialized", FALSE, c1)
       ELSE IF validate_index(address_index, d.addresses)
       THEN COut("IndexOutOfRange", FALSE, c1)
       ELSE IF validate_index(key_index, d.keys)
       THEN COut("IndexOutOfRange", FALSE, c1)
       ELSE IF bytes_to_hex_empty(c1, out) THEN COut("EmptyOutput", TRUE, c1)
       ELSE COut("ok", TRUE,
                 [c1 EXCEPT !.data[n].dsks =
                     Append(@, DskRec(Len(d.dsks), address_index, key_index,
                                      dsk_method(c1, n)))])

Svc_trace_identity(c, n, address_index, out) ==
    LET c1 == set_current_scheme(c, n)
        d == c1.data[n]
    IN IF ensure_initialized(c1, n) THEN COut("NotInitialized", FALSE, c1)
       ELSE IF validate_index(address_index, d.addresses)
       THEN COut("IndexOutOfRange", FALSE, c1)
       ELSE IF d.tracer = 0 THEN COut("TracerKeyMissing", FALSE, c1)
       ELSE IF bytes_to_hex_empty(c1, out) THEN COut("EmptyOutput", TRUE, c1)
       ELSE COutRet("ok", TRUE, c1,
                    TraceRet(out, IF n = "stealth"
                                  THEN StealthUtils_find_matching_key(c1, out)
                                  ELSE find_matching_key(c1, out)))

Svc_performance_test(c, n) ==
    LET c1 == set_current_scheme(c, n)
    IN IF ensure_initialized(c1, n) THEN COut("NotInitialized", FALSE, c1)
       ELSE COut("ok", TRUE, c1)

\* The ways a caller may address StealthServices.sign_message: by dsk_index,
\* by (address_index, key_index), or with neither.
SignModes == {"dsk", "keypair", "neither"}

sign_with_dsk(c, dsk_index, out) ==
    LET d == c.data[c.current_scheme]
    IN IF validate_index(dsk_index, d.dsks) THEN COut("IndexOutOfRange", FALSE, c)
       ELSE IF ~c.dsk_fn THEN COut("DskSigningUnavailable", FALSE, c)
       ELSE IF bytes_to_hex_empty(c, out) THEN COut("EmptyOutput", TRUE, c)
       ELSE COut("ok", TRUE, c)

sign_with_keypair(c, address_index, key_index, out) ==
    LET d == c.data[c.current_scheme]
    IN IF validate_index(address_index, d.addresses)
       THEN COut("IndexOutOfRange", FALSE, c)
       ELSE IF validate_index(key_index, d.keys)
       THEN COut("IndexOutOfRange", FALSE, c)
       ELSE IF bytes_to_hex_empty(c, out) THEN COut("EmptyOutput", TRUE, c)
       ELSE COut("ok", TRUE, c)

Stealth_svc_sign_message(c, mode, i, j, out) ==
    IF ensure_initialized(c, c.current_scheme) THEN COut("NotInitialized", FALSE, c)
    ELSE IF mode = "dsk" THEN sign_with_dsk(c, i, out)
    ELSE IF mode = "keypair" THEN sign_with_keypair(c, i, j, out)
    ELSE COut("BadArguments", FALSE, c)

\* The wrapper's verify returns bool(result).
Stealth_svc_verify_signature(c, address_index, rv) ==
    LET d == c.data[c.current_scheme]
    IN IF ensure_initialized(c, c.current_scheme)
       THEN COut("NotInitialized", FALSE, c)
       ELSE IF validate_index(address_index, d.addresses)
       THEN COut("IndexOutOfRange", FALSE, c)
       ELSE COutRet("ok", TRUE, c, BoolRet(rv, py_bool(rv), FALSE))

(***************************************************************************)
(* schemes/hdwsa/hdwsa_services.py: 'hdwsa' owns no entry of schemes_data, *)
(* so set_initialized, ensure_initialized and the reset_scheme of the      *)
(* error handler all raise ValueError("Unknown scheme: hdwsa").            *)
(***************************************************************************)
Hdwsa_setup_system(c, param_file, env) ==
    COut("UnknownScheme", ParamExists("config", "hdwsa", param_file), c)

Hdwsa_generate_keypair(c) == COut("UnknownScheme", FALSE, c)

(***************************************************************************)
(* Calls on the configuration and on the service classes.  A service call  *)
(* names the service n it is made on.                                      *)
(***************************************************************************)
\* Room left for one more record: the bounds count the records of a kind
\* over the sessions of both schemes.
KeysRoom ==
    Len(cfg.data["stealth"].keys) + Len(cfg.data["sitaiba"].keys) < MaxKeys
AddrsRoom ==
    Len(cfg.data["stealth"].addresses) + Len(cfg.data["sitaiba"].addresses)
        < MaxAddrs
DsksRoom ==
    Len(cfg.data["stealth"].dsks) + Len(cfg.data["sitaiba"].dsks) < MaxDsks

CfgStep(op, n, first, a1, o) ==
    /\ cfg' = o.cfg
    /\ last' = [Call(op, n, o.res, first, o.native, FALSE, a1)
                EXCEPT !.ret = IF o.res = "ok" /\ "ret" \in DOMAIN o
                               THEN o.ret ELSE NoRet]
    /\ saved' = IF n = saved.id \/ n # cfg.current_scheme THEN SavedClear
                ELSE SavedKeep
    /\ UNCHANGED <<app, mgr, glob, demo_state, plug>>

Cfg_set_current_scheme ==
    /\ app = "config"
    /\ \E scheme_name \in CfgInputs :
         /\ cfg' = IF scheme_name \in CfgIds
                   THEN set_current_scheme(cfg, scheme_name) ELSE cfg
         /\ last' = Call("switch", scheme_name,
                         IF scheme_name \in CfgIds THEN "ok" ELSE "UnknownScheme",
                         "none", FALSE, FALSE, 0)
    /\ saved' = SavedSwitch(cfg.current_scheme, cfg'.current_scheme,
                            last'.res = "ok")
    /\ UNCHANGED <<app, mgr, glob, demo_state, plug, nat>>
    /\ UNCHANGED <<conc, conv>>

Cfg_reset_scheme ==
    /\ app = "config"
    /\ \E scheme_name \in CfgInputs \cup {"none"} :
         LET n == IF scheme_name = "none" THEN cfg.current_scheme ELSE scheme_name
         IN /\ cfg' = IF n \in CfgIds THEN reset_scheme(cfg, n) ELSE cfg
            /\ last' = Call("reset", n,
                            IF n \in CfgIds THEN "ok" ELSE "UnknownScheme",
                            "none", FALSE, FALSE, 0)
            /\ saved' = SavedReset(n)
    /\ UNCHANGED <<app, mgr, glob, demo_state, plug, nat>>
    /\ UNCHANGED <<conc, conv>>

Cfg_reset_all_schemes ==
    /\ app = "config"
    /\ cfg' = reset_all_schemes(cfg)
    /\ last' = Call("reset_all", cfg.current_scheme, "ok", "none", FALSE, FALSE,
                    0)
    /\ saved' = SavedClear
    /\ UNCHANGED <<app, mgr, glob, demo_state, plug, nat>>
    /\ UNCHANGED <<conc, conv>>

Cfg_setup_system ==
    /\ app = "config"
    /\ \E n \in Services, param_file \in ParamFiles, env \in InitEnv :
       \E tk \in NativeDraw(NativeOut,
                /\ n # "hdwsa" /\ ParamExists("config", n, param_file)
                /\ InitOutcome(n, param_file, env) = "ok"),
          dsk_lib \in BOOLEAN :
         /\ CfgStep("setup", n, "param", FileNo(param_file),
                    IF n = "hdwsa" THEN Hdwsa_setup_system(cfg, param_file, env)
                    ELSE Svc_setup_system(cfg, n, param_file, env, tk, dsk_lib))
         /\ nat' = IF ParamExists("config", n, param_file)
                      /\ InitOutcome(n, param_file, env) = "ok"
                   THEN [nat EXCEPT ![n] = TRUE] ELSE nat
    /\ UNCHANGED <<conc, conv>>

Cfg_generate_keypair ==
    /\ app = "config"
    /\ \E n \in Services, out \in NativeOut :
         /\ KeysRoom
         /\ CfgStep("keygen", n, "initialized", 0,
                    IF n = "hdwsa" THEN Hdwsa_generate_keypair(cfg)
                    ELSE Svc_generate_keypair(cfg, n, out))
    /\ UNCHANGED nat
    /\ UNCHANGED <<conc, conv>>

Cfg_generate_address ==
    /\ app = "config"
    /\ \E n \in CfgIds, key_index \in Idx, out \in NativeOut :
         /\ AddrsRoom
         /\ CfgStep("addrgen", n, "initialized", key_index,
                    Svc_generate_address(cfg, n, key_index, out))
    /\ UNCHANGED nat
    /\ UNCHANGED <<conc, conv>>

Cfg_recognize_address ==
    /\ app = "config"
    /\ \E n \in CfgIds, address_index \in Idx, key_index \in Idx,
          fast \in BOOLEAN :
       \E rv \in NativeDraw(NativeBool,
                Svc_recognize_address(cfg, n, address_index, key_index,
                                      fast, 1).native) :
         CfgStep("verify_addr", n, "initialized", 0,
                 Svc_recognize_address(cfg, n, address_index, key_index,
                                       fast, rv))
    /\ UNCHANGED nat
    /\ UNCHANGED <<conc, conv>>

Cfg_generate_dsk ==
    /\ app = "config"
    /\ \E n \in CfgIds, address_index \in Idx, key_index \in Idx,
          out \in NativeOut :
         /\ DsksRoom
         /\ CfgStep("dskgen", n, "initialized", 0,
                    Svc_generate_dsk(cfg, n, address_index, key_index, out))
    /\ UNCHANGED nat
    /\ UNCHANGED <<conc, conv>>

Cfg_sign_message ==
    /\ app = "config"
    /\ \E mode \in SignModes, i \in Idx, j \in Idx, out \in NativeOut :
         /\ mode # "keypair" => j = 0
         /\ mode = "neither" => i = 0
         /\ CfgStep("sign", "stealth", "initialized", 0,
                    Stealth_svc_sign_message(cfg, mode, i, j, out))
    /\ UNCHANGED nat
    /\ UNCHANGED <<conc, conv>>

Cfg_verify_signature ==
    /\ app = "config"
    /\ \E address_index \in Idx :
       \E rv \in NativeDraw(NativeBool,
                Stealth_svc_verify_signature(cfg, address_index, 1).native) :
         CfgStep("verify", "stealth", "initialized", address_index,
                 Stealth_svc_verify_signature(cfg, address_index, rv))
    /\ UNCHANGED nat
    /\ UNCHANGED <<conc, conv>>

Cfg_trace_identity ==
    /\ app = "config"
    /\ \E n \in CfgIds, address_index \in Idx :
       \E out \in NativeDraw(TraceOut,
                Svc_trace_identity(cfg, n, address_index, 1).native) :
         CfgStep("trace", n, "initialized", address_index,
                 Svc_trace_identity(cfg, n, address_index, out))
    /\ UNCHANGED nat
    /\ UNCHANGED <<conc, conv>>

Cfg_performance_test ==
    /\ app = "config"
    /\ \E n \in CfgIds :
         CfgStep("performance", n, "initialized", 0,
                 Svc_performance_test(cfg, n))
    /\ UNCHANGED nat
    /\ UNCHANGED <<conc, conv>>

(***************************************************************************)
(* The handlers that list the schemes and report the status.               *)
(***************************************************************************)
\* app_multi_scheme.py get_schemes and status: both read the manager and the
\* globals and build a response; status also asks an initialized pairing
\* library for its element sizes, two getters that write nothing.
Multi_status ==
    /\ app = "multi"
    /\ \E op \in {"list", "status"} :
         last' = Call(op, mgr.current_scheme, "ok", "none", FALSE, FALSE, 0)
    /\ saved' = SavedKeep
    /\ UNCHANGED <<app, mgr, glob, demo_state, plug, cfg, nat, conc, conv>>

\* api/schemes.py get_schemes: with no current scheme and the my_stealth
\* library file present it calls switch_scheme('my_stealth'); the two
\* demo_state assignments run only when the switch returns, and an exception
\* of the switch is caught and printed, so the response is a success either
\* way.
Api_get_schemes ==
    /\ app = "api"
    /\ \E env \in LoadEnv :
         LET auto == mgr.current_scheme = "none" /\ env # "missing"
             r == IF auto THEN Mgr_switch_scheme(mgr, nat, "my_stealth", env)
                  ELSE [mgr |-> mgr, nat |-> nat, res |-> "none",
                        cleanup |-> FALSE]
         IN /\ mgr' = r.mgr
            /\ nat' = r.nat
            /\ demo_state' =
                 IF r.res = "ok"
                 THEN [demo_state EXCEPT !.current_scheme = "my_stealth",
                                         !.initialized = FALSE]
                 ELSE demo_state
            /\ last' = Call("list", mgr.current_scheme, "ok", "none",
                            r.cleanup, r.cleanup, 0)
            /\ saved' = IF auto
                        THEN SavedSwitch(mgr.current_scheme,
                                         r.mgr.current_scheme, r.res = "ok")
                        ELSE SavedKeep
    /\ UNCHANGED <<app, glob, plug, cfg, conc, conv>>

\* api/routes.py get_status: reads demo_state and the manager.
Api_get_status ==
    /\ app = "api"
    /\ last' = Call("status", mgr.current_scheme, "ok", "none", FALSE, FALSE, 0)
    /\ saved' = SavedKeep
    /\ UNCHANGED <<app, mgr, glob, demo_state, plug, cfg, nat, conc, conv>>

\* SchemeManager.get_status: the active scheme's get_status plus the names
\* of the registered schemes.  StealthScheme defines no get_status: the call
\* resolves to the abstract method of BaseScheme, whose body is empty, and
\* the update of its result raises.
Plug_get_status ==
    /\ app = "plugin"
    /\ last' = Call("status", plug.name,
                    IF plug.name = "stealth" THEN "NotImplemented" ELSE "ok",
                    "none", FALSE, FALSE, 0)
    /\ saved' = SavedKeep
    /\ UNCHANGED <<app, mgr, glob, demo_state, plug, cfg, nat, conc, conv>>

\* MultiSchemeConfig.get_status(scheme_name): the counts of the named
\* scheme's entry, of the current scheme's when no name is given;
\* get_scheme_data raises for a name without an entry.
Cfg_get_status ==
    /\ app = "config"
    /\ \E scheme_name \in CfgInputs \cup {"none"} :
         LET n == IF scheme_name = "none" THEN cfg.current_scheme
                  ELSE scheme_name
         IN last' = Call("status", n,
                         IF n \in CfgIds THEN "ok" ELSE "UnknownScheme",
                         "none", FALSE, FALSE, 0)
    /\ saved' = SavedKeep
    /\ UNCHANGED <<app, mgr, glob, demo_state, plug, cfg, nat, conc, conv>>

(***************************************************************************)
(* Concurrent requests.  The services are served by Flask's development    *)
(* server (app.run), which handles each request on a thread of its own;    *)
(* no lock guards the module-global config.  A request runs                *)
(* BaseSchemeService.generate_keypair or generate_address statement by     *)
(* statement, and config.key_list and config.address_list resolve to the   *)
(* lists of whatever scheme is current when the statement runs.            *)
(***************************************************************************)
\* The request threads.
Threads == {"t1", "t2"}

ThreadIdle == [pc |-> "idle", op |-> "none", n |-> "none", key_index |-> 0,
               out |-> 0, index |-> 0]

\* raced records that a statement of one request ran while another request
\* was between its first and its last statement.
ConcInit == [thr |-> [t \in Threads |-> ThreadIdle], raced |-> FALSE]

ConcOps == {"keygen", "addrgen"}

AllIdle == \A t \in Threads : conc.thr[t].pc = "idle"

OthersBusy(t) == \E u \in Threads \ {t} : conc.thr[u].pc # "idle"

InFlight(op) ==
    Cardinality({t \in Threads : conc.thr[t].pc # "idle" /\ conc.thr[t].op = op})

\* config.key_list / config.address_list: the list of the current scheme.
data_list(c, op) ==
    IF op = "keygen" THEN c.data[c.current_scheme].keys
    ELSE c.data[c.current_scheme].addresses

\* An index that ignores the length of the list.
item_index_zero(list) == 0

\* "index": len(config.key_list) in the item a request builds.
item_index(list) == Len(list)

ConcRoom(op) ==
    \A m \in CfgIds :
      IF op = "keygen" THEN Len(cfg.data[m].keys) + InFlight(op) < MaxKeys
      ELSE Len(cfg.data[m].addresses) + InFlight(op) < MaxAddrs

ConcStep(t, thread) ==
    conc' = [thr |-> [conc.thr EXCEPT ![t] = thread],
             raced |-> conc.raced \/ OthersBusy(t)]

ConcFrame == UNCHANGED <<app, mgr, glob, demo_state, plug, nat, saved, conv>>

\* A request returns: res is its outcome.
ConcReturn(t, res, native) ==
    /\ ConcStep(t, ThreadIdle)
    /\ last' = Call(conc.thr[t].op, conc.thr[t].n, res, "initialized", native,
                    FALSE, 0)

\* setup_system of a scheme that is not set up yet, run while no other
\* request is in progress.
Conc_setup_system ==
    /\ AllIdle
    /\ Cfg_setup_system
    /\ last'.id \in CfgIds
    /\ ~cfg.data[last'.id].initialized

\* set_current_scheme, ensure_initialized and, for generate_address, the
\* validation of key_index and the tracer key test.
Conc_enter ==
    /\ app = "config"
    /\ \E t \in Threads, op \in ConcOps, n \in CfgIds, key_index \in Idx :
         LET c1 == set_current_scheme(cfg, n)
             fail(res) ==
                 /\ conc' = [conc EXCEPT !.raced = @ \/ OthersBusy(t)]
                 /\ last' = Call(op, n, res, "initialized", FALSE, FALSE, 0)
         IN /\ conc.thr[t].pc = "idle"
            /\ ConcRoom(op)
            /\ op = "keygen" => key_index = 0
            /\ cfg' = c1
            /\ IF ensure_initialized(c1, n) THEN fail("NotInitialized")
               ELSE IF op = "addrgen" /\ validate_index(key_index, data_list(c1, "keygen"))
               THEN fail("IndexOutOfRange")
               ELSE IF op = "addrgen" /\ c1.data[c1.current_scheme].tracer = 0
               THEN fail("TracerKeyMissing")
               ELSE /\ ConcStep(t, [ThreadIdle EXCEPT !.pc = "native", !.op = op,
                                                      !.n = n,
                                                      !.key_index = key_index])
                    /\ UNCHANGED last
    /\ ConcFrame

\* The native call and the conversion of its output buffers.
Conc_native ==
    /\ app = "config"
    /\ \E t \in Threads, out \in NativeOut :
         /\ conc.thr[t].pc = "native"
         /\ IF bytes_to_hex_empty(cfg, out)
            THEN ConcReturn(t, "EmptyOutput", TRUE)
            ELSE /\ ConcStep(t, [conc.thr[t] EXCEPT !.pc = "build", !.out = out])
                 /\ UNCHANGED last
    /\ UNCHANGED cfg
    /\ ConcFrame

\* The item is built: its index is the length of the list at this moment.
Conc_build ==
    /\ app = "config"
    /\ \E t \in Threads :
         /\ conc.thr[t].pc = "build"
         /\ ConcStep(t, [conc.thr[t] EXCEPT
                           !.pc = "append",
                           !.index = item_index(data_list(cfg, conc.thr[t].op))])
    /\ UNCHANGED <<cfg, last>>
    /\ ConcFrame

\* config.key_list.append(item) / config.address_list.append(address_item).
Conc_append ==
    /\ app = "config"
    /\ \E t \in Threads :
         LET th == conc.thr[t]
             cur == cfg.current_scheme
         IN /\ th.pc = "append"
            /\ cfg' = IF th.op = "keygen"
                      THEN [cfg EXCEPT !.data[cur].keys =
                              Append(@, KeyRec(th.index, th.out))]
                      ELSE [cfg EXCEPT !.data[cur].addresses =
                              Append(@, AddrRec(th.index, th.key_index))]
            /\ ConcReturn(t, "ok", TRUE)
    /\ ConcFrame

InitConc ==
    /\ app = "config"
    /\ mgr = MgrInit
    /\ glob = GlobInit
    /\ demo_state = DemoInit
    /\ plug = NoInst
    /\ cfg = CfgInit
    /\ nat = [l \in LibIds \cup PlugIds \cup Services |-> FALSE]
    /\ conc = ConcInit
    /\ conv = NoConv
    /\ last = NoCall
    /\ saved = SavedOff

NextConc ==
    \/ Conc_setup_system
    \/ Conc_enter
    \/ Conc_native
    \/ Conc_build
    \/ Conc_append

\* The services under concurrent requests.
SpecConc == InitConc /\ [][NextConc]_vars

(***************************************************************************)
(* Hex conversion: common/base_utils.py hex_to_bytes_safe and the stealth  *)
(* converter bytes_to_hex_safe_fixed (schemes/stealth/stealth_utils.py,    *)
(* utils.py).  A hex string is a sequence of characters, bytes a sequence  *)
(* of numbers 0..255.                                                      *)
(***************************************************************************)
\* The longest hex string converted.
MaxHexLen == 4

\* The characters of the hex strings converted.
HexChars == {"0", "1", "a", "F"}

HexStrings == UNION {[1..k -> HexChars] : k \in 1..MaxHexLen}

\* The element sizes, in bytes, the library may report.
ElemSizes == {1, 2}

\* int(ch, 16)
HexVal(ch) ==
    CASE ch = "0" -> 0
      [] ch = "1" -> 1
      [] ch \in {"a", "A"} -> 10
      [] ch \in {"f", "F"} -> 15

\* The two lower-case characters bytes.hex() writes for one byte.
HexDigits == <<"0", "1", "2", "3", "4", "5", "6", "7", "8", "9", "a", "b",
               "c", "d", "e", "f">>

ByteHex(b) == <<HexDigits[(b \div 16) + 1], HexDigits[(b % 16) + 1]>>

RECURSIVE BytesHex(_)
BytesHex(data) ==
    IF data = <<>> THEN <<>> ELSE ByteHex(Head(data)) \o BytesHex(Tail(data))

\* hex_to_bytes_safe: an odd-length string gets a leading "0", then
\* bytes.fromhex.  The empty string raises ValueError ("error").
hex_to_bytes_safe(hex_str) ==
    IF hex_str = <<>> THEN "error"
    ELSE LET padded == IF Len(hex_str) % 2 # 0 THEN <<"0">> \o hex_str
                       ELSE hex_str
         IN [i \in 1..(Len(padded) \div 2) |->
               16 * HexVal(padded[2 * i - 1]) + HexVal(padded[2 * i])]

\* The stealth bytes_to_hex_safe_fixed on a buffer whose raw content is raw:
\* the first expected_size bytes, "" when they are all zero.
bytes_to_hex_safe_fixed(raw, expected_size) ==
    LET size == IF expected_size > Len(raw) THEN Len(raw) ELSE expected_size
        data == SubSeq(raw, 1, size)
    IN IF \A i \in DOMAIN data : data[i] = 0 THEN <<>> ELSE BytesHex(data)

ConvFrame ==
    UNCHANGED <<app, mgr, glob, demo_state, plug, cfg, nat, last, saved, conc>>

\* fromHex
Hex_from_hex ==
    /\ conv.pc = "start"
    /\ conv' = [conv EXCEPT !.pc = "bytes", !.raw = hex_to_bytes_safe(conv.h)]
    /\ ConvFrame

\* toHex of the bytes, held in a buffer of their own length
Hex_to_hex ==
    /\ conv.pc = "bytes"
    /\ conv' = [conv EXCEPT !.pc = "done",
                            !.back = bytes_to_hex_safe_fixed(conv.raw, conv.size)]
    /\ ConvFrame

InitHex ==
    /\ app = "config"
    /\ mgr = MgrInit
    /\ glob = GlobInit
    /\ demo_state = DemoInit
    /\ plug = NoInst
    /\ cfg = CfgInit
    /\ nat = [l \in LibIds \cup PlugIds \cup Services |-> FALSE]
    /\ conc = ConcInit
    /\ last = NoCall
    /\ saved = SavedOff
    /\ \E h \in HexStrings, size \in ElemSizes :
         conv = [NoConv EXCEPT !.pc = "start", !.h = h, !.size = size]

NextHex ==
    \/ Hex_from_hex
    \/ Hex_to_hex

\* The round trip of one hex string.
SpecHex == InitHex /\ [][NextHex]_vars

(***************************************************************************)
(* Specification                                                           *)
(***************************************************************************)
NatLibs == LibIds \cup PlugIds \cup Services

Init ==
    /\ app \in Apps
    /\ mgr = MgrInit
    /\ glob = GlobInit
    /\ demo_state = DemoInit
    /\ plug = NoInst
    /\ cfg = CfgInit
    /\ nat = [l \in NatLibs |-> FALSE]
    /\ conc = ConcInit
    /\ conv = NoConv
    /\ last = NoCall
    /\ saved = SavedOff

Next ==
    \/ Multi_switch_scheme
    \/ Multi_setup
    \/ Multi_keygen
    \/ Multi_reset_system
    \/ Api_switch_scheme
    \/ Api_setup_system
    \/ Api_generate_key
    \/ Api_reset_system
    \/ Plug_activate_scheme
    \/ Plug_reset_active_scheme
    \/ Plug_setup_system
    \/ Plug_reset_system
    \/ Plug_generate_keypair
    \/ Plug_generate_address
    \/ Plug_verify_address
    \/ Plug_generate_dsk
    \/ Plug_sign_message
    \/ Plug_verify_signature
    \/ Plug_trace_identity
    \/ Plug_performance_test
    \/ Cfg_set_current_scheme
    \/ Cfg_reset_scheme
    \/ Cfg_reset_all_schemes
    \/ Cfg_setup_system
    \/ Cfg_generate_keypair
    \/ Cfg_generate_address
    \/ Cfg_recognize_address
    \/ Cfg_generate_dsk
    \/ Cfg_sign_message
    \/ Cfg_verify_signature
    \/ Cfg_trace_identity
    \/ Cfg_performance_test
    \/ Multi_status
    \/ Api_get_schemes
    \/ Api_get_status
    \/ Plug_get_status
    \/ Cfg_get_status

Spec == Init /\ [][Next]_vars

\* The same system with the history variable saved switched on.
InitSwitch ==
    /\ app \in Apps
    /\ mgr = MgrInit
    /\ glob = GlobInit
    /\ demo_state = DemoInit
    /\ plug = NoInst
    /\ cfg = CfgInit
    /\ nat = [l \in NatLibs |-> FALSE]
    /\ conc = ConcInit
    /\ conv = NoConv
    /\ last = NoCall
    /\ saved = NoSaved

\* The handlers that switch, set up, reset or add to a session: the history
\* of switches is followed through them.  The handlers that verify and trace
\* add nothing to a session and are left out, and so are the handlers that
\* report the status; get_schemes of the api application is kept, for it
\* switches.
NextSwitch ==
    \/ Multi_switch_scheme
    \/ Multi_setup
    \/ Multi_keygen
    \/ Multi_reset_system
    \/ Api_switch_scheme
    \/ Api_setup_system
    \/ Api_generate_key
    \/ Api_reset_system
    \/ Plug_activate_scheme
    \/ Plug_reset_active_scheme
    \/ Plug_setup_system
    \/ Plug_reset_system
    \/ Plug_generate_keypair
    \/ Plug_generate_address
    \/ Plug_generate_dsk
    \/ Plug_sign_message
    \/ Plug_performance_test
    \/ Cfg_set_current_scheme
    \/ Cfg_reset_scheme
    \/ Cfg_reset_all_schemes
    \/ Cfg_setup_system
    \/ Cfg_generate_keypair
    \/ Cfg_generate_address
    \/ Cfg_generate_dsk
    \/ Cfg_sign_message
    \/ Cfg_performance_test
    \/ Api_get_schemes

SpecSwitch == InitSwitch /\ [][NextSwitch]_vars

(***************************************************************************)
(* Properties                                                              *)
(***************************************************************************)
\* The operations that work on the session of a scheme.
CryptoOps == {"keygen", "addrgen", "verify_addr", "dskgen", "sign", "verify",
              "trace", "performance"}

\* The results that reject an index: the validation's own error and Python's
\* IndexError on a list access.
IndexRejections == {"IndexOutOfRange", "IndexError"}

\* Scheme id declares the capability an operation needs.  The library manager
\* lists function names, the plugins list capabilities; the service classes
\* of the configuration declare none.
Declares(id, op) ==
    CASE app \in {"multi", "api"} -> op \in SCHEMES[id]
      [] app = "plugin" -> op \in capabilities[id]
      [] app = "config" -> TRUE

IsPrefix(a, b) == Len(a) <= Len(b) /\ SubSeq(b, 1, Len(a)) = a

\* C1: after any activate/switch call, successful or failing, a scheme is
\* active once an activation has succeeded: a switch that follows a successful
\* switch never leaves the dispatcher without an active scheme, and a
\* successful switch makes the requested scheme the active one.
C1_OneActive ==
    [][last'.op = "switch" =>
         /\ (last.op = "switch" /\ last.res = "ok") => ActiveId' # "none"
         /\ last'.res = "ok" => ActiveId' = last'.id]_vars

\* The configuration with the session of every scheme other than n emptied.
Blank(c, n) ==
    [c EXCEPT !.data = [m \in CfgIds |-> IF m = n THEN c.data[m] ELSE EmptySession]]

\* The outcome of every call on the stealth service is the outcome the same
\* call has when the sessions of the other schemes are empty.
ReadsOwnSession ==
    app = "config" =>
      /\ \A mode \in SignModes, i \in Idx, j \in Idx, out \in NativeOut :
           Stealth_svc_sign_message(cfg, mode, i, j, out).res
             = Stealth_svc_sign_message(Blank(cfg, "stealth"), mode, i, j, out).res
      /\ \A i \in Idx, rv \in NativeBool :
           Stealth_svc_verify_signature(cfg, i, rv).res
             = Stealth_svc_verify_signature(Blank(cfg, "stealth"), i, rv).res

\* C2: an operation (the crypto operations, setup, reset) changes only the
\* session of the scheme it is served by, and its outcome does not depend on
\* the session of any other scheme.
C2_Frame ==
    [][last'.op \in CryptoOps \cup {"setup", "reset"} =>
         /\ app = "config" =>
              \A m \in CfgIds \ {last'.id} : cfg'.data[m] = cfg.data[m]
         /\ ReadsOwnSession']_vars

\* C3: when switch(B) left scheme A and the next switch returns to A, with no
\* reset of A in between, A's keys, addresses, tracer key and initialized flag
\* are what they were before switch(B).
C3_SwitchRestores ==
    saved.back =>
      /\ SessOf(saved.id).keys = saved.sess.keys
      /\ SessOf(saved.id).addresses = saved.sess.addresses
      /\ SessOf(saved.id).tracer = saved.sess.tracer
      /\ SessOf(saved.id).initialized = saved.sess.initialized

C5_CapabilityFirst ==
    last.op \in CryptoOps => last.first = "capability"

\* C6: an operation called while the session of the scheme it is served by
\* has not completed setup fails with NotInitialized (or, the capability
\* check coming first, with CapabilityNotSupported).
C6_NotInitialized ==
    (last.op \in CryptoOps /\ last.id # "none" /\ ~SessOf(last.id).initialized) =>
      last.res \in {"NotInitialized", "CapabilityNotSupported"}

\* C7: no operation other than reset removes, reorders or modifies a record:
\* every collection of every session is a prefix of what it is after the step.
C7_AppendOnly ==
    [][last'.op \notin {"reset", "reset_all"} =>
         \A i \in DOMAIN SessList :
           /\ IsPrefix(SessList[i].keys, SessList'[i].keys)
           /\ IsPrefix(SessList[i].addresses, SessList'[i].addresses)
           /\ IsPrefix(SessList[i].dsks, SessList'[i].dsks)
           /\ IsPrefix(SessList[i].sigs, SessList'[i].sigs)]_vars

C9_RejectNoEffect ==
    [][(last'.op \in CryptoOps
        /\ last'.res \in IndexRejections \cup {"CapabilityNotSupported"}) =>
         (~last'.native /\ SessList' = SessList)]_vars

C9_Witness ==
    /\ app = "config"
    /\ last.op = "dskgen"
    /\ last.res = "IndexOutOfRange"
    /\ Len(cfg.data[last.id].keys) > 0
    /\ Len(cfg.data[last.id].addresses) > 0

\* The dispatcher's record that the active scheme's adapter is initialized.
AdapterInitialized ==
    CASE app \in {"multi", "api"} -> mgr.initialized
      [] app = "plugin" -> plug.sess.initialized
      [] app = "config" -> cfg.data[cfg.current_scheme].initialized

\* C10: a successful switch calls the native cleanup of the scheme it leaves
\* exactly when that scheme was initialized, and the scheme it activates is
\* not initialized afterwards.
C10_SwitchCleanup ==
    [][(last'.op = "switch" /\ last'.res = "ok" /\ app # "config") =>
         /\ last'.cleanup <=> (ActiveId # "none" /\ AdapterInitialized)
         /\ ~AdapterInitialized']_vars

\* A session as reset() must leave it: no records, no tracer key, not
\* initialized.
Cleared(s) ==
    /\ s.keys = <<>>
    /\ s.addresses = <<>>
    /\ s.dsks = <<>>
    /\ s.sigs = <<>>
    /\ s.tracer = 0
    /\ ~s.initialized

HasSession(id) ==
    id # "none" /\ (app = "config" => id \in CfgIds)

C13_UnknownSchemeNoEffect ==
    [][(last'.op = "switch" /\ last'.id \notin NatLibs) =>
         /\ last'.res = "UnknownScheme"
         /\ ActiveId' = ActiveId
         /\ AdapterInitialized' = AdapterInitialized
         /\ SessList' = SessList]_vars

\* C14: setup while no scheme is active fails with NoActiveScheme, calls no
\* native init and marks nothing initialized.
C14_SetupNoActive ==
    [][(last'.op = "setup" /\ ActiveId = "none") =>
         /\ last'.res = "NoActiveScheme"
         /\ ~last'.native
         /\ nat' = nat
         /\ AdapterInitialized' => AdapterInitialized
         /\ \A i \in DOMAIN SessList :
              SessList'[i].initialized => SessList[i].initialized]_vars

\* Setup was refused after a scheme that had been set up was deactivated.
C14_Witness ==
    /\ app = "plugin"
    /\ last.op = "setup"
    /\ last.res = "NoActiveScheme"
    /\ plug.name = "none"
    /\ \E n \in PlugIds : nat[n]

\* The parameter file a setup call was given.
SetupFile(c) == ParamFileList[c.a1]

\* C15: setup with a parameter file of the other family than the scheme's
\* fails with UnsupportedParamFile, calls no native init and initializes no
\* session.
C15_FamilyMismatch ==
    [][(/\ last'.op = "setup"
        /\ last'.id # "none"
        /\ Family(SetupFile(last')) # param_type(last'.id)) =>
         /\ last'.res = "UnsupportedParamFile"
         /\ ~last'.native
         /\ \A i \in DOMAIN SessList :
              SessList'[i].initialized => SessList[i].initialized]_vars

\* C16: every registered scheme has a session from startup, so no setup,
\* reset or session operation of a registered scheme fails because the
\* session store does not know the scheme.
C16_SessionForEveryScheme ==
    (/\ last.op \in CryptoOps \cup {"setup", "reset"}
     /\ last.id \in NatLibs)
    => last.res # "UnknownScheme"

\* Setup has succeeded for session s and s was not reset since.  A plugin
\* scheme sets its flag before it generates the tracer key, so there the key
\* must be present too.
SetUp(s) == s.initialized /\ (app = "plugin" => s.tracer # 0)

\* C17: in a session that was set up and not reset, generateKey succeeds
\* unless the native call returns nothing, and every other operation of the
\* scheme's capability set fails only for its indices or for an empty native
\* output.
C17_SucceedsAfterSetup ==
    (/\ last.op \in CryptoOps
     /\ last.id # "none"
     /\ SetUp(SessOf(last.id))
     /\ Declares(last.id, last.op))
    => /\ last.res \in {"ok", "EmptyOutput", "BadArguments"} \cup IndexRejections
       /\ last.op = "keygen" => last.res \in {"ok", "EmptyOutput"}

\* C18: on a scheme with the full capability set whose setup has succeeded,
\* the flow generateKey, generateAddress(0), generateDerivedKey(0, 0),
\* signMessage(dskIndex = 0) succeeds step by step whenever the native calls
\* return data: the key, the address (owned by key 0) and the derived key
\* (of address 0 and key 0) each get index 0, and signing with derived key 0
\* succeeds whether the derived key was made by the dedicated or the fallback
\* method, and records a signature.
C18_FullFlow ==
    /\ (app = "config" /\ cfg.current_scheme = "stealth"
        /\ cfg.data["stealth"].initialized) =>
         LET d == cfg.data["stealth"]
             k == Svc_generate_keypair(cfg, "stealth", 1)
             a == Svc_generate_address(cfg, "stealth", 0, 1)
             g == Svc_generate_dsk(cfg, "stealth", 0, 0, 1)
             m == Stealth_svc_sign_message(cfg, "dsk", 0, 0, 1)
         IN /\ d.keys = <<>> =>
                 k.res = "ok" /\ k.cfg.data["stealth"].keys = <<KeyRec(0, 1)>>
            /\ (Len(d.keys) >= 1 /\ d.addresses = <<>>) =>
                 a.res = "ok" /\ a.cfg.data["stealth"].addresses = <<AddrRec(0, 0)>>
            /\ (Len(d.keys) >= 1 /\ Len(d.addresses) >= 1 /\ d.dsks = <<>>) =>
                 g.res = "ok" /\ g.cfg.data["stealth"].dsks \in
                                    {<<DskRec(0, 0, 0, m0)>> : m0 \in {"dedicated", "fallback"}}
            /\ (Len(d.dsks) >= 1 /\ d.sigs = <<>>) =>
                 m.res = "ok" /\ Len(m.cfg.data["stealth"].sigs) = 1
    /\ (app = "plugin" /\ plug.name = "stealth" /\ SetUp(plug.sess)) =>
         LET d == plug.sess
             k == Stealth_generate_keypair(plug, 1)
             a == Stealth_generate_address(plug, 0)
             g == Stealth_generate_dsk(plug, 0, 0)
         IN /\ d.keys = <<>> =>
                 k.res = "ok" /\ k.inst.sess.keys = <<KeyRec(0, 1)>>
            /\ (Len(d.keys) >= 1 /\ d.addresses = <<>>) =>
                 a.res = "ok" /\ a.inst.sess.addresses = <<AddrRec(0, 0)>>
            /\ (Len(d.keys) >= 1 /\ Len(d.addresses) >= 1 /\ d.dsks = <<>>) =>
                 g.res = "ok" /\ g.inst.sess.dsks \in
                                    {<<DskRec(0, 0, 0, m0)>> : m0 \in {"dedicated", "fallback"}}

LastKey(s) == s.keys[Len(s.keys)]

\* C19: generateKey never succeeds on an all-zero native output: after a
\* successful generateKey the key record it appended does not come from an
\* all-zero buffer (such a call fails with EmptyOutput and appends nothing).
C19_ZeroKeygenFails ==
    (last.op = "keygen" /\ last.res = "ok" /\ last.id # "none"
     /\ SessOf(last.id).keys # <<>>)
    => LastKey(SessOf(last.id)).val # 0

\* C20: no component stored in a session is the encoding of an all-zero
\* buffer as zero digits, and the converter in use maps an all-zero buffer to
\* the empty string whichever scheme is current.
C20_NoZeroDigits ==
    /\ \A i \in DOMAIN SessList : \A k \in DOMAIN SessList[i].keys :
         SessList[i].keys[k].val # 0
    /\ app = "config" => bytes_to_hex_empty(cfg, 0)

Methods == {"dedicated", "fallback"}

\* C21: every derived-key record carries a method, dedicated or fallback:
\* after a successful generateDerivedKey the record it appended names the
\* method, and in the stealth service that is dedicated exactly when the
\* library offers the dedicated DSK functions.
C21_MethodReported ==
    [][(last'.op = "dskgen" /\ last'.res = "ok" /\ last'.id # "none") =>
         LET s == SessOf(last.id)'
             r == s.dsks[Len(s.dsks)]
         IN /\ s.dsks # <<>>
            /\ r.method \in Methods
            /\ (app = "config" /\ last'.id = "stealth") =>
                 (r.method = "dedicated" <=> cfg.dsk_fn)]_vars

Traced == last.op = "trace" /\ last.res = "ok" /\ last.id # "none"

\* C22: traceIdentity reports a perfect match only when the recovered hex
\* equals a stored key's public component; a link found through the
\* partial-prefix fallback is never reported as a perfect match.
C22_PerfectOnlyExact ==
    (Traced /\ last.ret.perfect_match) =>
      /\ last.ret.match_type # "partial"
      /\ \E i \in DOMAIN SessOf(last.id).keys :
           SessOf(last.id).keys[i].val = last.ret.recovered

\* The key that owns the traced address, when the session still holds it.
OwnerOfTraced == PyAt(SessOf(last.id).addresses, last.a1).key_index

DistinctKeys(s) ==
    \A i, j \in DOMAIN s.keys : s.keys[i].val = s.keys[j].val => i = j

C24_RecognizeNeverThrows ==
    (last.op = "verify_addr" /\ last.id # "none"
     /\ SessOf(last.id).initialized)
    => /\ last.res \in {"ok"} \cup IndexRejections
       /\ (last.res = "ok" /\ last.ret.rv = 0) => last.ret.reported = "false"

C24_Witness ==
    /\ last.op = "verify_addr" /\ last.res = "ok"
    /\ app = "config" /\ last.id = "sitaiba"
    /\ ~last.ret.is_owner /\ last.ret.rv = 0 /\ last.ret.reported = "false"

\* C25: a boolean-returning native function's 1 is reported as true, its 0
\* as false, and any other return value is reported as an error: a
\* recognition or verification that succeeds was decided by a 0 or a 1.
C25_BooleanReturn ==
    (last.op \in {"verify_addr", "verify"} /\ last.res = "ok") =>
      \/ last.ret.rv = 1 /\ last.ret.reported = "true"
      \/ last.ret.rv = 0 /\ last.ret.reported = "false"

\* C26: the native init function runs only while the adapter's library is
\* not initialized: a setup that reaches the native init finds the library
\* cleaned up (never initialized, or cleaned up since its last init).
C26_InitOnlyAfterCleanup ==
    [][(last'.op = "setup" /\ last'.native /\ last'.id \in DOMAIN nat) =>
         ~nat[last'.id]]_vars

\* C27: calls are serialized: no statement of one call runs between another
\* call's first read and its last write of the registry and the sessions.
C27_SingleWriter == ~conc.raced

\* Every record of the list carries its own position as its index.
IndexOK(list) == \A i \in DOMAIN list : list[i].index = i - 1

\* C28: index assignment is corrupted only through interleaving: as long as
\* no two requests have overlapped every record's index is its position;
\* two overlapping appends on one session can leave two records with the
\* same index.
C28_CorruptionNeedsInterleaving ==
    ~conc.raced =>
      \A m \in CfgIds : IndexOK(cfg.data[m].keys) /\ IndexOK(cfg.data[m].addresses)

C28_Witness ==
    /\ conc.raced
    /\ AllIdle
    /\ \E m \in CfgIds :
         /\ Len(cfg.data[m].keys) = 2
         /\ cfg.data[m].keys[1].index = cfg.data[m].keys[2].index

\* C29: for every valid hex string h of even length, converting h to bytes
\* and back to hex returns exactly h, strings of zero digits and strings
\* with leading zero bytes included.
C29_HexRoundTrip ==
    (conv.pc = "done" /\ Len(conv.h) % 2 = 0) => conv.back = conv.h

\* C30: on the SITAIBA scheme, once setup, generate_keypair and
\* generate_address have succeeded, sign_message succeeds and stores a
\* signature, and verify_signature on a stored signature reports valid.
C30_SitaibaSigning ==
    (/\ app = "plugin" /\ last.id = "sitaiba" /\ plug.name = "sitaiba"
     /\ plug.sess.initialized
     /\ plug.sess.keys # <<>> /\ plug.sess.addresses # <<>>)
    => /\ last.op = "sign" => (last.res = "ok" /\ plug.sess.sigs # <<>>)
       /\ (last.op = "verify" /\ plug.sess.sigs # <<>>) =>
            (last.res = "ok" /\ last.ret.reported = "true")

InRange(i, list) == i >= 0 /\ i < Len(list)

\* The references stored in session s point at records of s.
RefsOK(s) ==
    /\ \A i \in DOMAIN s.addresses : InRange(s.addresses[i].key_index, s.keys)
    /\ \A i \in DOMAIN s.dsks :
         /\ InRange(s.dsks[i].address_index, s.addresses)
         /\ InRange(s.dsks[i].key_index, s.keys)

C33_InitializedHasAdapter ==
    (ActiveId # "none" /\ Store.initialized) => nat[ActiveId]

\* C34: at every point a session with initialized = true has a tracer key;
\* a setup whose tracer-key generation fails leaves initialized = false.
C34_InitializedHasTracer ==
    \A i \in DOMAIN SessList : SessList[i].initialized => SessList[i].tracer # 0

\* C35: at every point a session with initialized = false has empty keys,
\* addresses, derived-key and signature collections and no tracer key.
C35_UninitializedIsEmpty ==
    \A i \in DOMAIN SessList : ~SessList[i].initialized => Cleared(SessList[i])

\* C36: a setup that fails (parameter file rejected, native init failing or
\* tracer-key generation failing) leaves every session as it was before the
\* call: artifacts, tracer key and initialized flag are unchanged.
C36_FailedSetupNoEffect ==
    [][(last'.op = "setup" /\ last'.res # "ok") => SessList' = SessList]_vars

\* C37: a switch to a registered scheme that fails because the library is
\* not found, not loaded or not bound leaves the previously active scheme
\* active, its adapter loaded, and its initialized status and the session
\* artifacts unchanged.
C37_FailedSwitchKeepsActive ==
    [][(/\ last'.op = "switch"
        /\ last'.res = "LibraryLoadFailed"
        /\ ActiveId # "none") =>
         /\ ActiveId' = ActiveId
         /\ mgr' = mgr
         /\ nat' = nat
         /\ SessList' = SessList]_vars

\* C38: a reset of the current scheme's session changes that session only
\* and leaves the session of every other scheme untouched, a reset of all
\* resets the session of every scheme, and neither changes which scheme is
\* active.
C38_ResetFrame ==
    [][/\ last'.op \in {"reset", "reset_all"} => ActiveId' = ActiveId
       /\ (last'.op = "reset" /\ app = "config") =>
            \A m \in CfgIds \ {last'.id} : cfg'.data[m] = cfg.data[m]
       /\ last'.op = "reset_all" =>
            \A i \in DOMAIN SessList : Cleared(SessList[i])']_vars

C38_Witness ==
    /\ app = "config"
    /\ last.op = "reset" /\ last.res = "ok" /\ last.id = cfg.current_scheme
    /\ Cleared(cfg.data[last.id])
    /\ \E m \in CfgIds \ {last.id} : cfg.data[m].keys # <<>>

Unbound == {"NotImplemented", "CapabilityNotSupported"}

C40_ListAndStatusReadOnly ==
    [][last'.op \in {"list", "status"} =>
         /\ ActiveId' = ActiveId
         /\ mgr' = mgr
         /\ nat' = nat
         /\ plug' = plug
         /\ SessList' = SessList]_vars

=============================================================================
